---- MODULE Spec2Model ----
(***************************************************************************)
(* Operational-transformation core of substance: the ObjectOperation       *)
(* algebra (model/data/ObjectOperation.js) and the StubHub commit protocol *)
(* (util/ServerWebSocket.js, StubHub).                                      *)
(***************************************************************************)
EXTENDS Integers, Sequences, FiniteSets, TLC

(***************************************************************************)
(* Bounds of the model.                                                    *)
(***************************************************************************)
\* number of client messages the hub handles in one behaviour
MaxHandled == 3

(***************************************************************************)
(* JavaScript values.  A value is a pair <<kind, payload>>: a string is    *)
(* its sequence of characters, undefined has no payload.                   *)
(***************************************************************************)
Undefined == <<"undefined", <<>>>>

Str(s) == <<"string", s>>

IsString(v) == v[1] = "string"

\* the value read from a document path that has no entry
Absent == <<"absent", <<>>>>

\* JavaScript truthiness, as used by `if (this.val)` and `if (!data.val)`:
\* undefined and the empty string are falsy
Truthy(v) == v # Undefined /\ v # Str(<<>>)

Chars == {"a", "b"}

Strings == {<<>>} \cup {<<c>> : c \in Chars} \cup {<<c, d>> : c \in Chars, d \in {"b"}}

Values == {Undefined} \cup {Str(s) : s \in Strings}

\* a path is a sequence of segments; NoPath stands for an op without a path
NoPath == <<>>

PathP == <<"p">>

PathQ == <<"q">>

Paths == {PathP, PathQ}

(***************************************************************************)
(* TextOperation: the leaf OT on strings (insert / delete at an offset).   *)
(***************************************************************************)
\* an op without a diff (this.diff is undefined)
NoDiff == [type |-> "none", pos |-> 0, str |-> <<>>]

TextInsert(pos, s) == [type |-> "insert", pos |-> pos, str |-> s]

TextDelete(pos, s) == [type |-> "delete", pos |-> pos, str |-> s]

TextNOP == [type |-> "NOP", pos |-> 0, str |-> <<>>]

TextIsNOP(t) == t.type = "NOP" \/ Len(t.str) = 0

\* diff.apply(value): [ok, val]; fails on a non-string and out of bounds
TextApply(t, v) ==
  IF t.type = "NOP" THEN [ok |-> TRUE, val |-> v]
  ELSE IF ~IsString(v) THEN [ok |-> FALSE, val |-> v]
  ELSE LET s == v[2] IN
    IF t.type = "insert" THEN
      IF t.pos > Len(s) THEN [ok |-> FALSE, val |-> v]
      ELSE [ok |-> TRUE,
            val |-> Str(SubSeq(s, 1, t.pos) \o t.str \o SubSeq(s, t.pos + 1, Len(s)))]
    ELSE
      IF t.pos + Len(t.str) > Len(s)
         \/ SubSeq(s, t.pos + 1, t.pos + Len(t.str)) # t.str
      THEN [ok |-> FALSE, val |-> v]
      ELSE [ok |-> TRUE,
            val |-> Str(SubSeq(s, 1, t.pos) \o SubSeq(s, t.pos + Len(t.str) + 1, Len(s)))]

\* diff.invert(): an insert becomes the delete of the same text and back
TextInvert(t) ==
  IF t.type = "insert" THEN TextDelete(t.pos, t.str)
  ELSE IF t.type = "delete" THEN TextInsert(t.pos, t.str)
  ELSE t

\* TextOperation.transform(a, b, {inplace: true}) for single-character
\* inserts and deletes; `a` is the dominant operand on ties
TextTransform(a, b) ==
  IF TextIsNOP(a) \/ TextIsNOP(b) THEN <<a, b>>
  ELSE IF a.type = "insert" /\ b.type = "insert" THEN
    IF a.pos <= b.pos THEN <<a, [b EXCEPT !.pos = b.pos + Len(a.str)]>>
    ELSE <<[a EXCEPT !.pos = a.pos + Len(b.str)], b>>
  ELSE IF a.type = "delete" /\ b.type = "delete" THEN
    IF a.pos = b.pos THEN <<TextNOP, TextNOP>>
    ELSE IF a.pos < b.pos THEN <<a, [b EXCEPT !.pos = b.pos - Len(a.str)]>>
    ELSE <<[a EXCEPT !.pos = a.pos - Len(b.str)], b>>
  ELSE IF a.type = "insert" /\ b.type = "delete" THEN
    IF a.pos <= b.pos THEN <<a, [b EXCEPT !.pos = b.pos + Len(a.str)]>>
    ELSE <<[a EXCEPT !.pos = a.pos - Len(b.str)], b>>
  ELSE
    IF b.pos <= a.pos THEN <<[a EXCEPT !.pos = a.pos + Len(b.str)], b>>
    ELSE <<a, [b EXCEPT !.pos = b.pos - Len(a.str)]>>

(***************************************************************************)
(* ObjectOperation.  An op is a record of the object's properties; a       *)
(* property the object does not have is Undefined / NoPath / NoDiff.       *)
(***************************************************************************)
NOP == "NOP"

CREATE == "create"

DELETE == "delete"

UPDATE == "update"

SET == "set"

MkOp(type, path, val, original, diff, ptype) ==
  [type |-> type, path |-> path, val |-> val, original |-> original,
   diff |-> diff, propertyType |-> ptype]

\* the object left by the constructor's early return for NOP
BareNOP == MkOp(NOP, NoPath, Undefined, Undefined, NoDiff, "undefined")

\* new ObjectOperation(data): [ok, op]; ok = FALSE when the constructor throws
ObjectOperation(data) ==
  IF data.type = NOP THEN [ok |-> TRUE, op |-> BareNOP]
  ELSE IF data.path = NoPath THEN [ok |-> FALSE, op |-> BareNOP]
  ELSE IF data.type \in {CREATE, DELETE} THEN
    IF ~Truthy(data.val) THEN [ok |-> FALSE, op |-> BareNOP]
    ELSE [ok |-> TRUE,
          op |-> MkOp(data.type, data.path, data.val, Undefined, NoDiff, "undefined")]
  ELSE IF data.type = UPDATE THEN
    IF data.diff = NoDiff THEN [ok |-> FALSE, op |-> BareNOP]
    ELSE [ok |-> TRUE,
          op |-> MkOp(UPDATE, data.path, Undefined, Undefined, data.diff, "string")]
  ELSE IF data.type = SET THEN
    [ok |-> TRUE,
     op |-> MkOp(SET, data.path, data.val, data.original, NoDiff, "undefined")]
  ELSE [ok |-> FALSE, op |-> BareNOP]

\* the factories: [ok, op]; ok = FALSE when the factory throws
OpCreate(path, val) == ObjectOperation(MkOp(CREATE, path, val, Undefined, NoDiff, "undefined"))

OpDelete(path, val) == ObjectOperation(MkOp(DELETE, path, val, Undefined, NoDiff, "undefined"))

OpUpdate(path, diff) == ObjectOperation(MkOp(UPDATE, path, Undefined, Undefined, diff, "undefined"))

OpSet(path, oldVal, newVal) == ObjectOperation(MkOp(SET, path, newVal, oldVal, NoDiff, "undefined"))

\* op.clone(): [ok, op]
Clone(op) ==
  ObjectOperation(MkOp(op.type, op.path,
                       IF Truthy(op.val) THEN op.val ELSE Undefined,
                       Undefined,
                       op.diff,
                       "undefined"))

\* op.isNOP(); undefined (falsy) for create, delete and set
IsNOP(op) ==
  IF op.type = NOP THEN TRUE
  ELSE IF op.type = UPDATE THEN TextIsNOP(op.diff)
  ELSE FALSE

\* the inverse built from result = new ObjectOperation(op)
Inverted(r, op) ==
  IF ~r.ok THEN r
  ELSE IF op.type = CREATE THEN [ok |-> TRUE, op |-> [r.op EXCEPT !.type = DELETE]]
  ELSE IF op.type = DELETE THEN [ok |-> TRUE, op |-> [r.op EXCEPT !.type = CREATE]]
  ELSE IF op.type = UPDATE THEN
    [ok |-> TRUE, op |-> [r.op EXCEPT !.diff = TextInvert(op.diff)]]
  ELSE [ok |-> TRUE, op |-> [r.op EXCEPT !.val = op.original, !.original = op.val]]

\* op.invert(): [ok, op]
Invert(op) ==
  IF op.type = NOP THEN [ok |-> TRUE, op |-> BareNOP]
  ELSE Inverted(ObjectOperation(op), op)

(***************************************************************************)
(* Documents: the adapter over which an op is applied (get/set/delete).    *)
(***************************************************************************)
DocGet(doc, path) == IF doc[path] = Absent THEN Undefined ELSE doc[path]

DocSet(doc, path, val) == [doc EXCEPT ![path] = val]

\* op.apply(obj): [ok, doc]; ok = FALSE when apply throws
Apply(op, doc) ==
  IF op.type = NOP THEN [ok |-> TRUE, doc |-> doc]
  ELSE IF op.type = CREATE THEN [ok |-> TRUE, doc |-> DocSet(doc, op.path, op.val)]
  ELSE IF op.type = DELETE THEN
    IF doc[op.path] = Absent THEN [ok |-> FALSE, doc |-> doc]
    ELSE [ok |-> TRUE, doc |-> DocSet(doc, op.path, Absent)]
  ELSE IF op.type = UPDATE THEN
    LET r == TextApply(op.diff, DocGet(doc, op.path)) IN
      IF r.ok THEN [ok |-> TRUE, doc |-> DocSet(doc, op.path, r.val)]
      ELSE [ok |-> FALSE, doc |-> doc]
  ELSE [ok |-> TRUE, doc |-> DocSet(doc, op.path, op.val)]

(***************************************************************************)
(* ObjectOperation.transform and its per-pair rules.  A rule mutates its   *)
(* operands in place; here it returns them: [ok, a, b], ok = FALSE when    *)
(* the rule throws.                                                        *)
(***************************************************************************)
\* hasConflict without the comparison of the paths
hasConflict_AnyPath(a, b) == a.type # NOP /\ b.type # NOP

hasConflict(a, b) ==
  IF a.type = NOP \/ b.type = NOP THEN FALSE
  ELSE a.path = b.path

transform_delete_delete(a, b) ==
  [ok |-> TRUE, a |-> [a EXCEPT !.type = NOP], b |-> [b EXCEPT !.type = NOP]]

transform_create_create(a, b) == [ok |-> FALSE, a |-> a, b |-> b]

transform_delete_create(a, b) == [ok |-> FALSE, a |-> a, b |-> b]

\* the body of transform_delete_update once `a` is the Delete and `b` the
\* Update; flipped tells that the caller passed them the other way round
transform_delete_update_body(a, b, flipped) ==
  LET r == TextApply(b.diff, a.val) IN
    \* op.apply(a.val) throws: not flipped, both types are already rewritten
    IF ~r.ok THEN
      IF ~flipped
      THEN [ok |-> FALSE, a |-> [a EXCEPT !.type = NOP], b |-> [b EXCEPT !.type = CREATE]]
      ELSE [ok |-> FALSE, a |-> a, b |-> b]
    ELSE IF ~flipped THEN
      [ok |-> TRUE, a |-> [a EXCEPT !.type = NOP],
       b |-> [b EXCEPT !.type = CREATE, !.val = r.val]]
    ELSE
      [ok |-> TRUE, a |-> [a EXCEPT !.val = r.val], b |-> [b EXCEPT !.type = NOP]]

transform_delete_update(a, b) ==
  IF a.type # DELETE THEN
    LET r == transform_delete_update_body(b, a, TRUE) IN
      [ok |-> r.ok, a |-> r.b, b |-> r.a]
  ELSE transform_delete_update_body(a, b, FALSE)

transform_create_update(a, b) == [ok |-> FALSE, a |-> a, b |-> b]

transform_update_update(a, b) ==
  LET t == TextTransform(a.diff, b.diff) IN
    [ok |-> TRUE, a |-> [a EXCEPT !.diff = t[1]], b |-> [b EXCEPT !.diff = t[2]]]

transform_create_set(a, b) == [ok |-> FALSE, a |-> a, b |-> b]

transform_delete_set_body(a, b, flipped) ==
  IF ~flipped THEN
    [ok |-> TRUE, a |-> [a EXCEPT !.type = NOP],
     b |-> [b EXCEPT !.type = CREATE, !.original = Undefined]]
  ELSE
    [ok |-> TRUE, a |-> [a EXCEPT !.val = b.val], b |-> [b EXCEPT !.type = NOP]]

transform_delete_set(a, b) ==
  IF a.type # DELETE THEN
    LET r == transform_delete_set_body(b, a, TRUE) IN
      [ok |-> r.ok, a |-> r.b, b |-> r.a]
  ELSE transform_delete_set_body(a, b, FALSE)

\* an update + set rule that returns instead of throwing
transform_update_set_NoThrow(a, b) == [ok |-> TRUE, a |-> a, b |-> b]

transform_update_set(a, b) == [ok |-> FALSE, a |-> a, b |-> b]

transform_set_set(a, b) ==
  [ok |-> TRUE, a |-> [a EXCEPT !.type = NOP], b |-> [b EXCEPT !.original = a.val]]

\* CODE[type]: one bit per type
CODE(type) ==
  CASE type = NOP -> 0
    [] type = CREATE -> 1
    [] type = DELETE -> 2
    [] type = UPDATE -> 4
    [] type = SET -> 8

\* x | y for two codes, each 0 or a single bit
BitOr(x, y) == IF x = y THEN x ELSE x + y

\* __transform__[CODE[a.type] | CODE[b.type]](a, b)
Dispatch(a, b) ==
  LET k == BitOr(CODE(a.type), CODE(b.type)) IN
    CASE k = 2 -> transform_delete_delete(a, b)
      [] k = 3 -> transform_delete_create(a, b)
      [] k = 6 -> transform_delete_update(a, b)
      [] k = 1 -> transform_create_create(a, b)
      [] k = 5 -> transform_create_update(a, b)
      [] k = 4 -> transform_update_update(a, b)
      [] k = 9 -> transform_create_set(a, b)
      [] k = 10 -> transform_delete_set(a, b)
      [] k = 12 -> transform_update_set(a, b)
      [] k = 8 -> transform_set_set(a, b)

\* transform(a, b, options): [status, a, b] with status "ok", "conflict"
\* (a Conflict is thrown) or "error" (any other throw)
\* the result of transform from the result r of the rule
Transformed(r) == [status |-> IF r.ok THEN "ok" ELSE "error", a |-> r.a, b |-> r.b]

\* transform once the operands are cloned (ca, cb: the results of clone)
transformCloned(ca, cb) ==
  IF ~ca.ok \/ ~cb.ok THEN [status |-> "error", a |-> ca.op, b |-> cb.op]
  ELSE IF IsNOP(ca.op) \/ IsNOP(cb.op) THEN [status |-> "ok", a |-> ca.op, b |-> cb.op]
  ELSE IF ca.op.path = cb.op.path THEN Transformed(Dispatch(ca.op, cb.op))
  ELSE [status |-> "ok", a |-> ca.op, b |-> cb.op]

transform(a, b, inplace, noConflict) ==
  IF noConflict /\ hasConflict(a, b) THEN [status |-> "conflict", a |-> a, b |-> b]
  ELSE transformCloned(IF inplace THEN [ok |-> TRUE, op |-> a] ELSE Clone(a),
                       IF inplace THEN [ok |-> TRUE, op |-> b] ELSE Clone(b))

(***************************************************************************)
(* DocumentChange: an ordered batch of ObjectOperations.                   *)
(***************************************************************************)
RECURSIVE ChangeCloneFrom(_, _)
ChangeCloneFrom(ops, i) ==
  IF i > Len(ops) THEN [ok |-> TRUE, change |-> <<>>]
  ELSE LET c == Clone(ops[i])
           rest == ChangeCloneFrom(ops, i + 1)
       IN IF c.ok /\ rest.ok
          THEN [ok |-> TRUE, change |-> <<c.op>> \o rest.change]
          ELSE [ok |-> FALSE, change |-> <<>>]

\* change.clone(): every op cloned
ChangeClone(change) == ChangeCloneFrom(change, 1)

\* one op a transformed in place against the ops of B from index j on
RECURSIVE TransformOpAcross(_, _, _)
\* the loop after the transform of a against B[j] gave t
TransformOpAcrossNext(t, a, B, j) ==
  IF t.status # "ok" THEN [ok |-> FALSE, a |-> a, B |-> B]
  ELSE TransformOpAcross(t.a, [B EXCEPT ![j] = t.b], j + 1)

TransformOpAcross(a, B, j) ==
  IF j > Len(B) THEN [ok |-> TRUE, a |-> a, B |-> B]
  ELSE TransformOpAcrossNext(transform(a, B[j], TRUE, FALSE), a, B, j)

\* DocumentChange.transformInplace(A, B): each op of A, in order, against each
\* op of B, in order; A is the change applied first
RECURSIVE TransformInplaceFrom(_, _, _)
\* the loop after A[i] was transformed against B, with result r
TransformInplaceNext(r, A, B, i) ==
  IF ~r.ok THEN [ok |-> FALSE, A |-> A, B |-> B]
  ELSE TransformInplaceFrom([A EXCEPT ![i] = r.a], r.B, i + 1)

TransformInplaceFrom(A, B, i) ==
  IF i > Len(A) THEN [ok |-> TRUE, A |-> A, B |-> B]
  ELSE TransformInplaceNext(TransformOpAcross(A[i], B, 1), A, B, i)

TransformInplace(A, B) == TransformInplaceFrom(A, B, 1)

\* doc._apply(change): the ops applied in order; a failing op leaves the
\* effects of the ops before it
RECURSIVE ApplyChangeFrom(_, _, _)
ApplyChangeFrom(doc, change, i) ==
  IF i > Len(change) THEN [ok |-> TRUE, doc |-> doc]
  ELSE LET r == Apply(change[i], doc) IN
    IF ~r.ok THEN [ok |-> FALSE, doc |-> doc]
    ELSE ApplyChangeFrom(r.doc, change, i + 1)

DocApply(doc, change) == ApplyChangeFrom(doc, change, 1)

(***************************************************************************)
(* Messages.  The data of a message is a JavaScript array; each element is *)
(* an item that carries its JavaScript kind, so that a number in the place *)
(* of a change is told apart from the change.                              *)
(***************************************************************************)
MkItem(kind, str, num, chg, list) ==
  [kind |-> kind, str |-> str, num |-> num, chg |-> chg, list |-> list, msg |-> <<>>]

StrItem(t) == MkItem("string", t, 0, <<>>, <<>>)

NumItem(n) == MkItem("number", "", n, <<>>, <<>>)

ChangeItem(c) == MkItem("change", "", 0, c, <<>>)

ChangesItem(l) == MkItem("changes", "", 0, <<>>, l)

UndefItem == MkItem("undefined", "", 0, <<>>, <<>>)

\* an element that is itself an array of items: a message inside a message
ArrayItem(d) ==
  [kind |-> "array", str |-> "", num |-> 0, chg |-> <<>>, list |-> <<>>, msg |-> d]

\* the key that names no property of the hub
NoKey == ""

\* the property key an item is converted to in this[item].  A string is its
\* own key.  An array is the keys of its elements joined with commas: the
\* key of its only element (the empty key when that is undefined), and for
\* no or several elements a key that names no property.  A number, a
\* change and undefined give "1", "[object Object]" and "undefined", which
\* name no property either
RECURSIVE KeyOf(_)
KeyOf(item) ==
  IF item.kind = "string" THEN item.str
  ELSE IF item.kind = "array" /\ Len(item.msg) = 1 THEN KeyOf(item.msg[1])
  ELSE NoKey

\* data[i] of a JavaScript array (0-based), undefined past its end
Arg(data, i) == IF i + 1 <= Len(data) THEN data[i + 1] ELSE UndefItem

Sessions == {"A", "B"}

\* clientId of the server-side socket of session s
ServerId(s) == <<s, "-server">>

\* ServerWebSocket.send: the message pushed to the message queue
send(s, data) == [from |-> ServerId(s), to |-> s, data |-> data]

\* the document the hub and the sessions start from
InitDoc == [path \in Paths |-> IF path = PathP THEN Str(<<"a">>) ELSE Absent]

(***************************************************************************)
(* StubHub.                                                                *)
(***************************************************************************)
VARIABLES
  version,    \* hub.doc.version
  changes,    \* hub.changes, the change log
  doc,        \* hub.doc, the content of the hub's document
  clients,    \* hub.wss.clients, the connected sockets in connection order
  handlers,   \* per socket: the 'message' handlers the hub registered on it
  queue,      \* messageQueue: the messages pushed by ServerWebSocket.send
  handled,    \* the client message handled last: [from, data]
  outcome,    \* "none", "ok", "threw" or "hangs": how the last handling ended
  nhandled    \* number of client messages handled so far

hubVars == <<version, changes, doc, clients, handlers, queue, handled, outcome, nhandled>>

NoMessage == [from |-> "", data |-> <<>>]

\* Array.prototype.splice(start) on a sequence: the removed tail and what
\* is left; a start past the end removes nothing, a negative start counts
\* from the end
splice(seq, start) ==
  LET n == Len(seq)
      from == IF start < 0 THEN (IF n + start < 0 THEN 0 ELSE n + start)
              ELSE IF start > n THEN n ELSE start
  IN [removed |-> SubSeq(seq, from + 1, n), rest |-> SubSeq(seq, 1, from)]

\* getChangesSinceVersion with the start index off by one: splice(version-2)
getChangesSinceVersion_OffByOne(log, v) == splice(log, v - 2)

\* getChangesSinceVersion(version): this.changes.splice(version-1)
getChangesSinceVersion(log, v) == splice(log, v - 1)

\* getCollaboratorSockets without the test client !== ws
getCollaboratorSockets_All(cl, ws) == cl

\* getCollaboratorSockets(ws)
getCollaboratorSockets(cl, ws) == SelectSeq(cl, LAMBDA c : c # ws)

\* this.doc after the constructor ran again with a socket as its doc
\* parameter: an object without _apply and without content
NotADocument == [path \in Paths |-> <<"socket", <<>>>>]

\* _applyChange without this.doc.version += 1
applyChange_NoIncrement(h, change) ==
  LET r == DocApply(h.doc, change) IN
    IF h.doc = NotADocument THEN [ok |-> FALSE, h |-> h]
    ELSE IF ~r.ok THEN [ok |-> FALSE, h |-> [h EXCEPT !.doc = r.doc]]
    ELSE [ok |-> TRUE,
          h |-> [version |-> h.version,
                 changes |-> Append(h.changes, change),
                 doc |-> r.doc]]

\* _applyChange(change) on the hub state h = [version, changes, doc]:
\* [ok, h]; when doc._apply throws nothing is pushed and the version stays;
\* it throws a TypeError when this.doc is not a document
applyChange(h, change) ==
  LET r == DocApply(h.doc, change) IN
    IF h.doc = NotADocument THEN [ok |-> FALSE, h |-> h]
    ELSE IF ~r.ok THEN [ok |-> FALSE, h |-> [h EXCEPT !.doc = r.doc]]
    ELSE [ok |-> TRUE,
          h |-> [version |-> h.version + 1,
                 changes |-> Append(h.changes, change),
                 doc |-> r.doc]]

\* the clones of the missed changes
RECURSIVE CloneAll(_, _)
CloneAll(list, i) ==
  IF i > Len(list) THEN [ok |-> TRUE, list |-> <<>>]
  ELSE LET c == ChangeClone(list[i])
           rest == CloneAll(list, i + 1)
       IN IF c.ok /\ rest.ok THEN [ok |-> TRUE, list |-> <<c.change>> \o rest.list]
          ELSE [ok |-> FALSE, list |-> <<>>]

\* for (i ...) DocumentChange.transformInplace(changes[i], newChange)
RECURSIVE TransformLoop(_, _, _)
\* the loop after changes[i] and newChange were transformed, with result t
TransformLoopNext(t, list, newChange, i) ==
  IF ~t.ok THEN [ok |-> FALSE, list |-> list, newChange |-> newChange]
  ELSE TransformLoop([list EXCEPT ![i] = t.A], t.B, i + 1)

TransformLoop(list, newChange, i) ==
  IF i > Len(list) THEN [ok |-> TRUE, list |-> list, newChange |-> newChange]
  ELSE TransformLoopNext(TransformInplace(list[i], newChange), list, newChange, i)

\* the update messages of the fast path, one per collaborator
FastUpdates(collabs, change, newVersion) ==
  [i \in 1..Len(collabs) |->
     send(collabs[i], <<StrItem("update"), ChangeItem(change), NumItem(newVersion)>>)]

\* the update messages of the rebase path, one per collaborator
RebaseUpdates(collabs, newVersion, newChange) ==
  [i \in 1..Len(collabs) |->
     send(collabs[i], <<StrItem("update"), NumItem(newVersion), ChangeItem(newChange)>>)]

\* what ws.send(['commitDone'], newVersion, changes) pushes: send takes one
\* parameter, the data
RebaseCommitDone(ws, newVersion, missed) == send(ws, <<StrItem("commitDone")>>)

\* the fast path after this._applyChange(change), with result r
commitFastDone(r, collabs, ws, change) ==
  IF ~r.ok THEN [threw |-> TRUE, h |-> r.h, sent |-> <<>>]
  ELSE [threw |-> FALSE, h |-> r.h,
        sent |-> <<send(ws, <<StrItem("commitDone"), NumItem(r.h.version)>>)>>
                 \o FastUpdates(collabs, change, r.h.version)]

\* the rebase path without its ws.send(['commitDone'], ...)
commitRebaseDone_NoCommitDone(r, collabs, ws, newChange, missed) ==
  IF ~r.ok THEN [threw |-> TRUE, h |-> r.h, sent |-> <<>>]
  ELSE [threw |-> FALSE, h |-> r.h,
        sent |-> RebaseUpdates(collabs, r.h.version, newChange)]

\* the rebase path after this._applyChange(newChange), with result r
commitRebaseDone(r, collabs, ws, newChange, missed) ==
  IF ~r.ok THEN [threw |-> TRUE, h |-> r.h, sent |-> <<>>]
  ELSE [threw |-> FALSE, h |-> r.h,
        sent |-> RebaseUpdates(collabs, r.h.version, newChange)
                 \o <<RebaseCommitDone(ws, r.h.version, missed)>>]

\* the rebase path after the transform loop, with result t
commitTransformed(t, h1, collabs, ws) ==
  IF ~t.ok THEN [threw |-> TRUE, h |-> h1, sent |-> <<>>]
  ELSE commitRebaseDone(applyChange(h1, t.newChange), collabs, ws, t.newChange, t.list)

\* the rebase path after the clones were made
commitCloned(missed, newChange, h1, collabs, ws) ==
  IF ~missed.ok \/ ~newChange.ok THEN [threw |-> TRUE, h |-> h1, sent |-> <<>>]
  ELSE commitTransformed(TransformLoop(missed.list, newChange.change, 1), h1, collabs, ws)

\* the rebase path after getChangesSinceVersion returned g
commitRebase(g, h, collabs, ws, changeArg) ==
  commitCloned(CloneAll(g.removed, 1),
               IF changeArg.kind = "change" THEN ChangeClone(changeArg.chg)
               ELSE [ok |-> FALSE, change |-> <<>>],
               [h EXCEPT !.changes = g.rest], collabs, ws)

\* StubHub.commit(ws, change, version): [threw, h, sent]
commit(h, cl, ws, changeArg, versionArg) ==
  IF versionArg.kind = "number" /\ h.version = versionArg.num THEN
    IF changeArg.kind # "change" THEN [threw |-> TRUE, h |-> h, sent |-> <<>>]
    ELSE commitFastDone(applyChange(h, changeArg.chg),
                        getCollaboratorSockets(cl, ws), ws, changeArg.chg)
  ELSE commitRebase(getChangesSinceVersion(h.changes, h.version), h,
                    getCollaboratorSockets(cl, ws), ws, changeArg)

\* StubHub.open(ws, documentId, version): [threw, h, sent]
open(h, cl, ws, documentId, versionArg) ==
  [threw |-> FALSE, h |-> h, sent |-> <<send(ws, <<StrItem("openDone"), versionArg>>)>>]

\* this.getChangesSinceVersion(ws, ...) as _onMessage calls it: the version
\* parameter is the socket, version-1 is NaN and splice(NaN) starts at 0;
\* the removed entries are returned to _onMessage, which drops them
callGetChangesSinceVersion(h) ==
  [threw |-> FALSE, h |-> [h EXCEPT !.changes = splice(h.changes, 0).rest], sent |-> <<>>]

\* this._applyChange(ws, ...) as _onMessage calls it: the change parameter
\* is the socket, which the document rejects in doc._apply
callApplyChange(h) == [threw |-> TRUE, h |-> h, sent |-> <<>>]

\* this.getCollaboratorSockets(ws, ...) as _onMessage calls it: the list is
\* returned to _onMessage, which drops it
callGetCollaboratorSockets(h) == [threw |-> FALSE, h |-> h, sent |-> <<>>]

\* this._onConnection(ws, ...) as _onMessage calls it: ws.connect registers
\* one more 'message' handler on the socket (counted by Registers); nothing
\* is sent and nothing of the hub's document or log changes
callOnConnection(h) == [threw |-> FALSE, h |-> h, sent |-> <<>>]

\* What the hub inherits through EventEmitter.extend(StubHub) and what the
\* server it creates does is decided by EventEmitter and WebSocketServer;
\* an env is one way they can be:
\*   ctor      what this.constructor is: StubHub with a WebSocketServer that
\*             accepts any message queue, StubHub with one that throws on a
\*             parameter that is no message queue, or another function
\*   inherited whether a method of EventEmitter called with the socket as
\*             first argument returns or throws
\*   emit      whether emit calls the handlers registered when it started
\*             (snapshot) or reads the list while handlers are added (live)
Envs == [ctor : {"StubHub", "StubHubThrows", "other"},
         inherited : {"returns", "throws"},
         emit : {"snapshot", "live"}]

DefaultEnv == [ctor |-> "StubHub", inherited |-> "returns", emit |-> "snapshot"]

\* this.constructor(ws, ...) as _onMessage calls it.  When it is StubHub,
\* StubHub runs again on the hub with the socket as doc: this.doc is the
\* socket, with version 1, this.changes is a new empty log, and this.wss is
\* a new server without clients (recorded by Resets) unless new
\* WebSocketServer throws; nothing is sent.  Another function returns and
\* leaves version, log and document
callConstructor(h, env) ==
  IF env.ctor = "other" THEN [threw |-> FALSE, h |-> h, sent |-> <<>>]
  ELSE [threw |-> env.ctor = "StubHubThrows",
        h |-> [version |-> 1, changes |-> <<>>, doc |-> NotADocument],
        sent |-> <<>>]

\* the names of the methods the hub inherits from EventEmitter
EmitterTags == {"emit", "connect", "disconnect", "on", "off"}

\* this[method].apply(this, args) for a method of EventEmitter: it works on
\* the hub's own event bindings, under the socket as event or as listener
callEmitterMethod(h, env) ==
  [threw |-> env.inherited = "throws", h |-> h, sent |-> <<>>]

\* the names of the methods the hub inherits from Object.prototype that
\* return when applied to the hub with the socket as first argument
\* (__defineGetter__ and __defineSetter__ throw: the socket is no function)
InheritedTags == {"toString", "valueOf", "hasOwnProperty", "isPrototypeOf",
                  "propertyIsEnumerable", "toLocaleString",
                  "__lookupGetter__", "__lookupSetter__"}

\* this[method].apply(this, args) for an inherited method: the result is
\* returned to _onMessage, which drops it
callInherited(h) == [threw |-> FALSE, h |-> h, sent |-> <<>>]

\* StubHub._onMessage(ws, data): this[data[0]].apply(this, [ws] ++ rest)
RECURSIVE onMessage(_, _, _, _, _)
\* this._onMessage(ws, x) as _onMessage calls it: the data parameter is x, the
\* second element of the message.  An array is dispatched as a message of
\* its own; a string, number, change or undefined has no splice and
\* var args = data.splice(1) throws a TypeError
callOnMessage(h, cl, ws, x, env) ==
  IF x.kind = "array" THEN onMessage(h, cl, ws, x.msg, env)
  ELSE [threw |-> TRUE, h |-> h, sent |-> <<>>]

onMessage(h, cl, ws, data, env) ==
  LET method == KeyOf(Arg(data, 0)) IN
    IF method = "open" THEN open(h, cl, ws, Arg(data, 1), Arg(data, 2))
    ELSE IF method = "commit" THEN commit(h, cl, ws, Arg(data, 1), Arg(data, 2))
    ELSE IF method = "getChangesSinceVersion" THEN callGetChangesSinceVersion(h)
    ELSE IF method = "_applyChange" THEN callApplyChange(h)
    ELSE IF method = "getCollaboratorSockets" THEN callGetCollaboratorSockets(h)
    ELSE IF method = "_onConnection" THEN callOnConnection(h)
    ELSE IF method = "_onMessage" THEN callOnMessage(h, cl, ws, Arg(data, 1), env)
    ELSE IF method = "constructor" THEN callConstructor(h, env)
    ELSE IF method \in EmitterTags THEN callEmitterMethod(h, env)
    ELSE IF method \in InheritedTags THEN callInherited(h)
    \* the hub has no property of that name ('close' included): this[method]
    \* is undefined and .apply throws a TypeError
    ELSE [threw |-> TRUE, h |-> h, sent |-> <<>>]

\* data after _onMessage ran on it: data.splice(1) left the tag only
Truncated(data) == IF data = <<>> THEN data ELSE <<data[1]>>

\* the message a call of _onMessage with data dispatches in the end: the
\* innermost one when '_onMessage' messages are nested
RECURSIVE Dispatched(_)
Dispatched(data) ==
  IF KeyOf(Arg(data, 0)) = "_onMessage" /\ Arg(data, 1).kind = "array"
  THEN Dispatched(Arg(data, 1).msg)
  ELSE data

\* the handlers a call of _onMessage with data, ended with r, registered
Registers(data, r) ==
  IF KeyOf(Arg(Dispatched(data), 0)) = "_onConnection" /\ ~r.threw THEN 1 ELSE 0

\* a call of _onMessage with data, ended with r, ran the constructor, which
\* replaced this.wss
Resets(data, r, env) ==
  KeyOf(Arg(Dispatched(data), 0)) = "constructor" /\ ~r.threw /\ env.ctor = "StubHub"

\* the handlers emit has still to call after one of n ended having
\* registered reg: a live emit calls the handler just added too
StillToCall(n, reg, env) == IF env.emit = "live" THEN n - 1 + reg ELSE n - 1

\* ServerWebSocket._onMessage(data): this.emit('message', data) calls the n
\* handlers registered on the socket one after the other, each with the same
\* array, until one throws: [threw, h, sent, calls, last, reg, reset, hangs].
\* A live emit never ends when every call adds a handler: hangs
RECURSIVE EmitMessage(_, _, _, _, _, _)
\* the emit after its first handler ended with r and the later ones with more
HandledMore(r, more, reg, reset) ==
  [threw |-> more.threw, h |-> more.h, sent |-> r.sent \o more.sent,
   calls |-> more.calls + 1, last |-> more.last, reg |-> more.reg + reg,
   reset |-> more.reset \/ reset, hangs |-> more.hangs]

\* the emit after its first handler ended with r
HandleAgain(r, cl, ws, data, n, env) ==
  IF r.threw \/ StillToCall(n, Registers(data, r), env) <= 0
  THEN [threw |-> r.threw, h |-> r.h, sent |-> r.sent,
        calls |-> 1, last |-> data, reg |-> Registers(data, r),
        reset |-> Resets(data, r, env), hangs |-> FALSE]
  ELSE IF env.emit = "live" /\ Registers(data, r) = 1 /\ data = Truncated(data)
  THEN [threw |-> FALSE, h |-> r.h, sent |-> r.sent,
        calls |-> 1, last |-> data, reg |-> 1,
        reset |-> FALSE, hangs |-> TRUE]
  ELSE HandledMore(r, EmitMessage(r.h, IF Resets(data, r, env) THEN <<>> ELSE cl,
                                  ws, Truncated(data),
                                  StillToCall(n, Registers(data, r), env), env),
                   Registers(data, r), Resets(data, r, env))

EmitMessage(h, cl, ws, data, n, env) ==
  IF n <= 0
  THEN [threw |-> FALSE, h |-> h, sent |-> <<>>, calls |-> 0, last |-> <<>>,
        reg |-> 0, reset |-> FALSE, hangs |-> FALSE]
  ELSE HandleAgain(onMessage(h, cl, ws, data, env), cl, ws, data, n, env)

\* env differs from DefaultEnv only where handling data can tell: in ctor
\* for a 'constructor' message, in inherited for a method of EventEmitter,
\* in emit for a message that registers a handler
Relevant(env, data) ==
  LET key == KeyOf(Arg(Dispatched(data), 0)) IN
    /\ key # "constructor" => env.ctor = DefaultEnv.ctor
    /\ key \notin EmitterTags => env.inherited = DefaultEnv.inherited
    /\ key # "_onConnection" => env.emit = DefaultEnv.emit

HubInit ==
  /\ version = 1
  /\ changes = <<>>
  /\ doc = InitDoc
  /\ clients = <<>>
  /\ handlers = [s \in Sessions |-> 0]
  /\ queue = <<>>
  /\ handled = NoMessage
  /\ outcome = "none"
  /\ nhandled = 0

IsClient(s) == \E i \in 1..Len(clients) : clients[i] = s

\* StubHub._onConnection(ws) on the handler counts hs: ws.connect(this,
\* {'message': ...}) registers one more handler on the socket
onConnection(hs, ws) == [hs EXCEPT ![ws] = @ + 1]

\* the server accepts the socket of session s: it joins wss.clients and
\* 'connection' is emitted once for it, which calls hub._onConnection; a
\* session connects its socket once
ServerAccepts(s) ==
  /\ outcome # "hangs"
  /\ ~IsClient(s)
  /\ handlers[s] = 0
  /\ clients' = Append(clients, s)
  /\ handlers' = onConnection(handlers, s)
  /\ UNCHANGED <<version, changes, doc, queue, handled, outcome, nhandled>>

\* the hub after the handlers of the socket of s ended with
\* r = [threw, h, sent, calls, last, reg, reset, hangs]
HubBecomes(s, r) ==
  /\ version' = r.h.version
  /\ changes' = r.h.changes
  /\ doc' = r.h.doc
  /\ queue' = queue \o r.sent
  /\ outcome' = IF r.hangs THEN "hangs" ELSE IF r.threw THEN "threw" ELSE "ok"
  /\ handled' = [from |-> s, data |-> r.last]
  /\ nhandled' = nhandled + r.calls
  /\ handlers' = [handlers EXCEPT ![s] = @ + r.reg]
  /\ clients' = IF r.reset THEN <<>> ELSE clients

\* the socket of session s emits 'message' with data: the hub handles it
\* once per handler it registered on the socket
HubHandles(s, data) ==
  /\ handlers[s] > 0
  /\ outcome # "hangs"
  /\ \E env \in Envs :
       /\ Relevant(env, data)
       /\ HubBecomes(s, EmitMessage([version |-> version, changes |-> changes, doc |-> doc],
                                    clients, s, data, handlers[s], env))

(***************************************************************************)
(* Sessions: the client side of the protocol (open, local edit, commit,    *)
(* commitDone, update) and the channel from each session to the hub.       *)
(***************************************************************************)
VARIABLES
  status,     \* per session: "closed", "opening", "synced" or "committing"
  sver,       \* per session: lastKnownVersion, as the item received
  sdoc,       \* per session: the local document
  pending,    \* per session: pendingLocal, the change being committed (<<>>: none)
  held,       \* per session: the updates queued while committing
  toHub,      \* per session: the messages sent to the hub and not yet handled
  nread,      \* per session: how many of its messages from the hub it processed
  nedits      \* number of local edits made so far

sessVars == <<status, sver, sdoc, pending, held, toHub, nread, nedits>>

\* number of local edits the sessions make in one behaviour
MaxEdits == 2

SessInit ==
  /\ status = [s \in Sessions |-> "closed"]
  /\ sver = [s \in Sessions |-> NumItem(1)]
  /\ sdoc = [s \in Sessions |-> InitDoc]
  /\ pending = [s \in Sessions |-> <<>>]
  /\ held = [s \in Sessions |-> <<>>]
  /\ toHub = [s \in Sessions |-> <<>>]
  /\ nread = [s \in Sessions |-> 0]
  /\ nedits = 0

\* the messages of the queue addressed to session s, in order
Inbox(s) == SelectSeq(queue, LAMBDA m : m.to = s)

\* the element of a message that is a number / a change, whatever its place
NumberOf(data) ==
  IF Arg(data, 1).kind = "number" THEN Arg(data, 1)
  ELSE IF Arg(data, 2).kind = "number" THEN Arg(data, 2)
  ELSE UndefItem

ChangeOf(data) ==
  IF Arg(data, 1).kind = "change" THEN Arg(data, 1)
  ELSE IF Arg(data, 2).kind = "change" THEN Arg(data, 2)
  ELSE UndefItem

\* the local edits a session can make on its document d
Edits(d) ==
  LET w == d[PathP] IN
    (IF IsString(w)
     THEN {<<OpUpdate(PathP, TextInsert(0, <<"b">>)).op>>,
           <<OpUpdate(PathP, TextInsert(Len(w[2]), <<"b">>)).op>>,
           <<OpSet(PathP, w, Str(<<"b">>)).op>>}
          \cup (IF Truthy(w) THEN {<<OpDelete(PathP, w).op>>} ELSE {})
     ELSE {})
    \cup (IF d[PathQ] = Absent THEN {<<OpCreate(PathQ, Str(<<"b">>)).op>>} ELSE {})

\* the changes of a list applied in order to the document d: [ok, doc]
RECURSIVE ApplyAll(_, _, _)
ApplyAll(d, list, i) ==
  IF i > Len(list) THEN [ok |-> TRUE, doc |-> d]
  ELSE LET r == DocApply(d, list[i]) IN
    IF ~r.ok THEN [ok |-> FALSE, doc |-> r.doc]
    ELSE ApplyAll(r.doc, list, i + 1)

\* the queued updates rebased across the pending change p and applied to d:
\* each update u was committed before p, so it is the first operand
RECURSIVE ApplyHeld(_, _, _, _)
ApplyHeldApplied(r, list, p, i) ==
  IF ~r.ok THEN [ok |-> FALSE, doc |-> r.doc]
  ELSE ApplyHeld(r.doc, list, p, i + 1)

ApplyHeldNext(t, d, list, i) ==
  IF ~t.ok THEN [ok |-> FALSE, doc |-> d]
  ELSE ApplyHeldApplied(DocApply(d, t.A), list, t.B, i)

ApplyHeld(d, list, p, i) ==
  IF i > Len(list) THEN [ok |-> TRUE, doc |-> d]
  ELSE ApplyHeldNext(TransformInplace(list[i], p), d, list, i)

\* the queued updates applied after the catch-up c = [ok, doc] was applied
CatchUp(c, updates, rebased) ==
  IF c.ok THEN ApplyHeld(c.doc, updates, rebased, 1) ELSE c

\* the session after it applied changes with result r = [ok, doc] and
\* learned the version item v
SessionApplied(s, r, v) ==
  /\ sdoc' = [sdoc EXCEPT ![s] = r.doc]
  /\ status' = [status EXCEPT ![s] = IF ~r.ok THEN "closed"
                                     ELSE IF @ = "opening" THEN @ ELSE "synced"]
  /\ sver' = [sver EXCEPT ![s] = IF r.ok /\ v.kind = "number" THEN v ELSE @]

\* the session connects its socket and sends open(docId, lastKnownVersion)
SessionOpen(s) ==
  /\ status[s] = "closed"
  /\ ServerAccepts(s)
  /\ status' = [status EXCEPT ![s] = "opening"]
  /\ toHub' = [toHub EXCEPT ![s] = Append(@, <<StrItem("open"), StrItem("doc-15"), sver[s]>>)]
  /\ UNCHANGED <<sver, sdoc, pending, held, nread, nedits>>

\* a local edit: applied locally, sent as commit(change, lastKnownVersion)
SessionEdit(s) ==
  /\ status[s] = "synced"
  /\ nedits < MaxEdits
  /\ \E c \in Edits(sdoc[s]) :
       /\ sdoc' = [sdoc EXCEPT ![s] = DocApply(sdoc[s], c).doc]
       /\ pending' = [pending EXCEPT ![s] = c]
       /\ toHub' = [toHub EXCEPT ![s] = Append(@, <<StrItem("commit"), ChangeItem(c), sver[s]>>)]
  /\ status' = [status EXCEPT ![s] = "committing"]
  /\ nedits' = nedits + 1
  /\ UNCHANGED <<sver, held, nread>>
  /\ UNCHANGED hubVars

\* the message queue delivers the next message of session s to the hub
Deliver(s) ==
  /\ toHub[s] # <<>>
  /\ HubHandles(s, Head(toHub[s]))
  /\ toHub' = [toHub EXCEPT ![s] = Tail(@)]
  /\ UNCHANGED <<status, sver, sdoc, pending, held, nread, nedits>>

\* the session processes its next message from the hub
SessionReceive(s) ==
  /\ nread[s] < Len(Inbox(s))
  /\ nread' = [nread EXCEPT ![s] = @ + 1]
  /\ LET data == Inbox(s)[nread[s] + 1].data
         tag == Arg(data, 0)
     IN
       IF tag = StrItem("openDone") /\ status[s] = "opening" THEN
         /\ status' = [status EXCEPT ![s] = "synced"]
         /\ sver' = [sver EXCEPT ![s] = Arg(data, 1)]
         /\ UNCHANGED <<sdoc, pending, held>>
       ELSE IF tag = StrItem("update") /\ status[s] = "committing" THEN
         /\ held' = [held EXCEPT ![s] = Append(@, data)]
         /\ UNCHANGED <<status, sver, sdoc, pending>>
       ELSE IF tag = StrItem("update") /\ status[s] \in {"opening", "synced"} THEN
         /\ SessionApplied(s, IF ChangeOf(data).kind = "change"
                              THEN DocApply(sdoc[s], ChangeOf(data).chg)
                              ELSE [ok |-> FALSE, doc |-> sdoc[s]],
                           NumberOf(data))
         /\ UNCHANGED <<pending, held>>
       ELSE IF tag = StrItem("commitDone") /\ status[s] = "committing" THEN
         /\ SessionApplied(s, CatchUp(ApplyAll(sdoc[s],
                                               IF Arg(data, 3).kind = "changes"
                                               THEN Arg(data, 3).list ELSE <<>>, 1),
                                      [i \in 1..Len(held[s]) |-> ChangeOf(held[s][i]).chg],
                                      IF Arg(data, 2).kind = "change"
                                      THEN Arg(data, 2).chg ELSE pending[s]),
                           IF NumberOf(data).kind = "number" \/ held[s] = <<>>
                           THEN NumberOf(data)
                           ELSE NumberOf(held[s][Len(held[s])]))
         /\ pending' = [pending EXCEPT ![s] = <<>>]
         /\ held' = [held EXCEPT ![s] = <<>>]
       ELSE UNCHANGED <<status, sver, sdoc, pending, held>>
  /\ UNCHANGED <<toHub, nedits>>
  /\ UNCHANGED hubVars

(***************************************************************************)
(* The operation algebra on its own: two operations and a document drawn   *)
(* from bounded sets, transformed and applied in both orders.              *)
(***************************************************************************)
VARIABLES
  opA, opB,   \* the operands of transform
  st,         \* the document both operands start from
  otpc,       \* "idle", "input", "transformed" or "applied"
  tres,       \* the result of transform(opA, opB), of opA.invert() or of opA.clone()
  lhs, rhs,   \* a'.apply(b.apply(st)) and b'.apply(a.apply(st)), as [ok, doc]
  opts        \* the options of the transform: [inplace, noConflict]

otVars == <<opA, opB, st, otpc, tres, lhs, rhs, opts>>

\* options = {}
DefaultOptions == [inplace |-> FALSE, noConflict |-> FALSE]

vars == <<hubVars, sessVars, otVars>>

NoResult == [status |-> "none", a |-> BareNOP, b |-> BareNOP]

NoDoc == [ok |-> FALSE, doc |-> InitDoc]

OtIdle ==
  /\ opA = BareNOP
  /\ opB = BareNOP
  /\ st = InitDoc
  /\ otpc = "idle"
  /\ tres = NoResult
  /\ lhs = NoDoc
  /\ rhs = NoDoc
  /\ opts = DefaultOptions

TextOps == {TextNOP, TextInsert(0, <<"b">>), TextInsert(1, <<"b">>), TextDelete(0, <<"a">>)}

\* the well-formed operations: what the factories build
WellFormedOps ==
  {BareNOP}
  \cup {OpCreate(path, Str(<<c>>)).op : path \in Paths, c \in Chars}
  \cup {OpDelete(path, Str(<<c>>)).op : path \in Paths, c \in Chars}
  \cup {OpUpdate(path, t).op : path \in Paths, t \in TextOps}
  \cup {OpSet(path[1], path[2], v).op :
          path \in Paths \X {Undefined, Str(<<"a">>)},
          v \in {Undefined, Str(<<>>), Str(<<"b">>)}}

Docs == [Paths -> {Absent, Str(<<>>), Str(<<"a">>), Str(<<"b">>)}]

\* op was generated on document d: apply does not throw and the op records
\* the state it replaces
GeneratedOn(op, d) ==
  /\ Apply(op, d).ok
  /\ op.type = CREATE => d[op.path] = Absent
  /\ op.type = DELETE => d[op.path] = op.val
  /\ op.type = SET => DocGet(d, op.path) = op.original

OtInit ==
  /\ opA \in WellFormedOps
  /\ opB \in WellFormedOps
  /\ st \in Docs
  /\ otpc = "input"
  /\ tres = NoResult
  /\ lhs = NoDoc
  /\ rhs = NoDoc
  /\ opts = DefaultOptions

\* (a', b') = transform(a, b), with the default options
DoTransform ==
  /\ otpc = "input"
  /\ tres' = transform(opA, opB, FALSE, FALSE)
  /\ otpc' = "transformed"
  /\ UNCHANGED <<opA, opB, st, lhs, rhs, opts>>
  /\ UNCHANGED <<hubVars, sessVars>>

\* op2.apply(op1.apply(d)): [ok, doc]
ApplyTwo(op1, op2, d) ==
  LET r == Apply(op1, d) IN IF r.ok THEN Apply(op2, r.doc) ELSE r

\* both orders applied to the common document
DoApply ==
  /\ otpc = "transformed"
  /\ tres.status = "ok"
  /\ lhs' = ApplyTwo(opB, tres.a, st)
  /\ rhs' = ApplyTwo(opA, tres.b, st)
  /\ otpc' = "applied"
  /\ UNCHANGED <<opA, opB, st, tres, opts>>
  /\ UNCHANGED <<hubVars, sessVars>>

\* transform(a, b, options) with any options; with inplace the returned pair
\* is the operands themselves
DoTransformWith ==
  /\ otpc = "input"
  /\ \E o \in [inplace : BOOLEAN, noConflict : BOOLEAN] :
       /\ opts' = o
       /\ tres' = transform(opA, opB, o.inplace, o.noConflict)
  /\ otpc' = "optioned"
  /\ UNCHANGED <<opA, opB, st, lhs, rhs>>
  /\ UNCHANGED <<hubVars, sessVars>>

\* the result of a unary operation, r = [ok, op], as a transform result
Unary(r) == [status |-> IF r.ok THEN "ok" ELSE "error", a |-> r.op, b |-> BareNOP]

\* the state after opA and then its inverse r = [ok, op]
ApplyInverse(r) == IF r.ok THEN ApplyTwo(opA, r.op, st) ELSE NoDoc

\* opA.invert(), and opA then its inverse applied to the document
DoInvert ==
  /\ otpc = "input"
  /\ tres' = Unary(Invert(opA))
  /\ lhs' = ApplyInverse(Invert(opA))
  /\ otpc' = "inverted"
  /\ UNCHANGED <<opA, opB, st, rhs, opts>>
  /\ UNCHANGED <<hubVars, sessVars>>

\* opA.clone()
DoClone ==
  /\ otpc = "input"
  /\ tres' = Unary(Clone(opA))
  /\ otpc' = "cloned"
  /\ UNCHANGED <<opA, opB, st, lhs, rhs, opts>>
  /\ UNCHANGED <<hubVars, sessVars>>

(***************************************************************************)
(* Specifications.                                                         *)
(***************************************************************************)
\* the changes clients commit to the hub
ClientChanges ==
  { <<OpCreate(PathQ, Str(<<"b">>)).op>>,
    <<OpUpdate(PathP, TextInsert(1, <<"b">>)).op>>,
    <<OpDelete(PathP, Str(<<"a">>)).op>>,
    <<OpSet(PathP, Str(<<"a">>), Str(<<>>)).op, OpDelete(PathQ, Str(<<"b">>)).op>> }

\* the versions a client may claim: the oldest, the hub's and one ahead
ClientVersions == {1, version, version + 1}

Init == HubInit /\ SessInit /\ OtIdle

Connect ==
  /\ \E s \in Sessions : ServerAccepts(s)
  /\ UNCHANGED <<sessVars, otVars>>

\* a connected client sends ['open', docId, v]
ClientOpen ==
  /\ nhandled < MaxHandled
  /\ \E s \in Sessions, v \in ClientVersions :
       HubHandles(s, <<StrItem("open"), StrItem("doc-15"), NumItem(v)>>)
  /\ UNCHANGED <<sessVars, otVars>>

\* a connected client sends ['commit', change, v]
ClientCommit ==
  /\ nhandled < MaxHandled
  /\ \E s \in Sessions, c \in ClientChanges, v \in ClientVersions :
       HubHandles(s, <<StrItem("commit"), ChangeItem(c), NumItem(v)>>)
  /\ UNCHANGED <<sessVars, otVars>>

Next == Connect \/ ClientOpen \/ ClientCommit

\* the hub under arbitrary open and commit messages
Spec == Init /\ [][Next]_vars

\* a connected client sends ['close', docId]
ClientClose ==
  /\ nhandled < MaxHandled
  /\ \E s \in Sessions : HubHandles(s, <<StrItem("close"), StrItem("doc-15")>>)
  /\ UNCHANGED <<sessVars, otVars>>

NextProto == Connect \/ ClientOpen \/ ClientCommit \/ ClientClose

\* the hub under arbitrary messages of the protocol: open, commit and close
SpecProto == Init /\ [][NextProto]_vars

\* the names of hub methods, other than open and commit, a client may send
MethodTags == {"getChangesSinceVersion", "_applyChange", "getCollaboratorSockets",
               "_onConnection", "_onMessage", "constructor"}

\* a connected client sends a message whose tag is the name of a hub method
ClientCallsMethod ==
  /\ nhandled < MaxHandled
  /\ \E s \in Sessions, m \in MethodTags \cup InheritedTags \cup EmitterTags :
       HubHandles(s, <<StrItem(m), NumItem(1)>>)
  /\ UNCHANGED <<sessVars, otVars>>

\* the messages a client may put inside an '_onMessage' message
InnerMessages ==
  {<<StrItem("commit"), ChangeItem(c), NumItem(version)>> : c \in ClientChanges}
  \cup {<<StrItem("open"), StrItem("doc-15"), NumItem(2)>>}
  \cup {<<StrItem(m)>> : m \in MethodTags \cup {"toString", "emit"}}

\* a connected client sends ['_onMessage', inner], inner a message itself
ClientNestsMessage ==
  /\ nhandled < MaxHandled
  /\ \E s \in Sessions, inner \in InnerMessages :
       HubHandles(s, <<StrItem("_onMessage"), ArrayItem(inner)>>)
  /\ UNCHANGED <<sessVars, otVars>>

\* the arrays a client may put in the place of the tag: one name, a name
\* in an array in an array, two names and none
ArrayTags ==
  {<<StrItem(m)>> : m \in {"open", "getChangesSinceVersion", "_onConnection",
                           "constructor", "toString", "close"}}
  \cup {<<ArrayItem(<<StrItem("getChangesSinceVersion")>>)>>,
        <<StrItem("open"), StrItem("commit")>>, <<>>}

\* a connected client sends a message whose tag is an array
ClientSendsArrayTag ==
  /\ nhandled < MaxHandled
  /\ \/ \E s \in Sessions, tag \in ArrayTags :
          HubHandles(s, <<ArrayItem(tag), StrItem("doc-15"), NumItem(1)>>)
     \/ \E s \in Sessions, c \in ClientChanges :
          HubHandles(s, <<ArrayItem(<<StrItem("commit")>>), ChangeItem(c), NumItem(version)>>)
  /\ UNCHANGED <<sessVars, otVars>>

NextAnyTag ==
  Connect \/ ClientOpen \/ ClientCommit \/ ClientClose \/ ClientCallsMethod
  \/ ClientNestsMessage \/ ClientSendsArrayTag

\* the hub under messages with any tag
SpecAnyTag == Init /\ [][NextAnyTag]_vars

Open == \E s \in Sessions : SessionOpen(s) /\ UNCHANGED otVars

Edit == \E s \in Sessions : SessionEdit(s) /\ UNCHANGED otVars

ToHub == \E s \in Sessions : Deliver(s) /\ UNCHANGED otVars

ToSession == \E s \in Sessions : SessionReceive(s) /\ UNCHANGED otVars

NextCollab == Open \/ Edit \/ ToHub \/ ToSession

\* the hub driven by sessions that follow the protocol
SpecCollab == Init /\ [][NextCollab]_vars

InitOT == HubInit /\ SessInit /\ OtInit

NextOT == DoTransform \/ DoApply \/ DoTransformWith \/ DoInvert \/ DoClone

\* the operation algebra
SpecOT == InitOT /\ [][NextOT]_vars

(***************************************************************************)
(* Vocabulary of the claims.                                               *)
(***************************************************************************)
\* this step is the hub handling one client message, once per handler
Handles == nhandled' > nhandled

\* this step is the hub handling ['commit', change, v] / ['open', docId, v]
HandlesCommit == Handles /\ Arg(handled'.data, 0) = StrItem("commit")

HandlesOpen == Handles /\ Arg(handled'.data, 0) = StrItem("open")

HandlesClose == Handles /\ Arg(handled'.data, 0) = StrItem("close")

\* the session, the change and the version of the commit handled in this step
Committer == handled'.from

CommitChange == Arg(handled'.data, 1).chg

CommitVersion == Arg(handled'.data, 2).num

\* the messages pushed to the queue in this step
Sent == SubSeq(queue', Len(queue) + 1, Len(queue'))

\* the messages of a sequence addressed to session s / with tag t
SentTo(msgs, s) == SelectSeq(msgs, LAMBDA m : m.to = s)

Tagged(msgs, t) == SelectSeq(msgs, LAMBDA m : Arg(m.data, 0) = StrItem(t))

HubUnchanged == version' = version /\ changes' = changes /\ doc' = doc

\* the last message handled was a commit that the hub accepted
AcceptedCommit ==
  /\ outcome = "ok"
  /\ Arg(handled.data, 0) = StrItem("commit")

\* ... handled on the fast path / on the other path: an accepted commit
\* raised the version by one, so the version before it was version - 1
AcceptedFast == AcceptedCommit /\ Arg(handled.data, 2).num = version - 1

AcceptedStale == AcceptedCommit /\ Arg(handled.data, 2).num < version - 1

AcceptedAhead == AcceptedCommit /\ Arg(handled.data, 2).num > version - 1

(***************************************************************************)
(* C1..C10                                                                 *)
(***************************************************************************)
\* C1: the hub's version is 1 plus the number of entries of its change log,
\* in every state reached by handling open and commit messages; before any
\* message is handled the version is 1 and the log is empty.
C1_VersionCountsLog ==
  /\ version = 1 + Len(changes)
  /\ nhandled = 0 => (version = 1 /\ changes = <<>>)

\* C1 witness: a commit was accepted on the rebase path after another commit
C1_Witness == AcceptedStale /\ Len(changes) = 2

\* C2: on commit(change, v) with v < hub.version the hub appends (and applies
\* to its document) the clone of the change transformed, in log order,
\* against the clones of the log entries from index v-1 to the end.
C2_RebasedAcrossMissed ==
  [][(HandlesCommit /\ CommitVersion < version) =>
       LET missed == CloneAll(SubSeq(changes, CommitVersion, Len(changes)), 1)
           incoming == ChangeClone(CommitChange)
           t == TransformLoop(missed.list, incoming.change, 1)
       IN (missed.ok /\ incoming.ok /\ t.ok /\ DocApply(doc, t.newChange).ok) =>
            /\ changes' = Append(changes, t.newChange)
            /\ doc' = DocApply(doc, t.newChange).doc]_vars

\* C4: commit(change, v) with v > hub.version is rejected: version, log and
\* document stay as they are and no update is broadcast.
C4_AheadRejected ==
  [][(HandlesCommit /\ CommitVersion > version) =>
       /\ HubUnchanged
       /\ outcome' = "threw"
       /\ Tagged(Sent, "update") = <<>>]_vars

\* C5: commit(change, v) with v = hub.version and a change that applies to
\* the hub document: the document becomes the change applied to it, the log
\* gains exactly that change as its last entry, the version grows by one and
\* the committer is sent one message, commitDone with the new version.
C5_FastPath ==
  [][(HandlesCommit /\ CommitVersion = version /\ DocApply(doc, CommitChange).ok) =>
       /\ outcome' = "ok"
       /\ doc' = DocApply(doc, CommitChange).doc
       /\ changes' = Append(changes, CommitChange)
       /\ version' = version + 1
       /\ SentTo(Sent, Committer)
            = <<send(Committer, <<StrItem("commitDone"), NumItem(version')>>)>>]_vars

\* C5 witness: a fast-path commit was accepted while a collaborator was connected
C5_Witness == AcceptedFast /\ Len(clients) = 2

\* C6: on the rebase path the committer is sent a single message: commitDone
\* with the new version, the rebased change and the list of rebased missed
\* changes.
C6_RebaseCommitDone ==
  [][(HandlesCommit /\ CommitVersion < version /\ outcome' = "ok") =>
       /\ Len(SentTo(Sent, Committer)) = 1
       /\ LET data == SentTo(Sent, Committer)[1].data IN
            /\ Len(data) = 4
            /\ Arg(data, 0) = StrItem("commitDone")
            /\ Arg(data, 1) = NumItem(version')
            /\ Arg(data, 2) = ChangeItem(changes'[Len(changes')])
            /\ Arg(data, 3).kind = "changes"]_vars

\* C7: for every accepted commit every connected session other than the
\* committer is sent exactly one update, the committer is sent none, and
\* with a single connected session no update is sent at all.
C7_OneUpdateEach ==
  [][(HandlesCommit /\ outcome' = "ok") =>
       /\ \A s \in Sessions :
            Len(SentTo(Tagged(Sent, "update"), s))
              = IF IsClient(s) /\ s # Committer THEN 1 ELSE 0
       /\ Len(clients) = 1 => Tagged(Sent, "update") = <<>>]_vars

\* C7 witness: a commit was accepted on the rebase path with two sessions
\* connected, and one was accepted before with a single session connected
C7_Witness ==
  /\ AcceptedStale
  /\ Len(clients) = 2
  /\ Len(Tagged(queue, "update")) = 1
  /\ Len(changes) = 2

\* C8: every update message has the tag at position 0, the new hub version
\* at position 1 and the committed change, as appended to the log, at
\* position 2.
C8_UpdateShape ==
  \A i \in 1..Len(queue) :
    Arg(queue[i].data, 0) = StrItem("update") =>
      /\ Len(queue[i].data) = 3
      /\ Arg(queue[i].data, 1).kind = "number"
      /\ Arg(queue[i].data, 1).num \in 2..version
      /\ Arg(queue[i].data, 2) = ChangeItem(changes[Arg(queue[i].data, 1).num - 1])

\* C9: open(docId, clientVersion) is answered with exactly one message to
\* the opening session, openDone with the hub's current version, and leaves
\* version, log and document as they are.
C9_OpenDoneVersion ==
  [][HandlesOpen =>
       /\ HubUnchanged
       /\ Sent = <<send(handled'.from, <<StrItem("openDone"), NumItem(version)>>)>>]_vars

\* C3: TP1: when a and b were each generated on s and transform(a, b) returns
\* (a', b'), b then a' and a then b' lead from s to the same document.
C3_TP1 ==
  (otpc = "applied" /\ GeneratedOn(opA, st) /\ GeneratedOn(opB, st)) =>
    /\ lhs.ok
    /\ rhs.ok
    /\ lhs.doc = rhs.doc

\* session s has processed a message for every committed change, has no
\* pending change and nothing under way
Settled(s) ==
  /\ status[s] = "synced"
  /\ pending[s] = <<>>
  /\ held[s] = <<>>
  /\ toHub[s] = <<>>
  /\ nread[s] = Len(Inbox(s))
  /\ Len(Tagged(Inbox(s), "update")) + Len(Tagged(Inbox(s), "commitDone")) = Len(changes)

\* C10: two sessions that have processed every commitDone and update up to
\* the hub's version and have no pending change hold the same document, the
\* hub's document.
C10_Convergence ==
  \A s1 \in Sessions : \A s2 \in Sessions \ {s1} :
    (Settled(s1) /\ Settled(s2)) => (sdoc[s1] = sdoc[s2] /\ sdoc[s1] = doc)

\* the number of commitDone messages among the first i messages of the queue
CommitDonesUpTo(i) == Len(Tagged(SubSeq(queue, 1, i), "commitDone"))

\* C11: in the messages sent to a session the commitDone for its commit c
\* comes before every update that announces a commit accepted after c.  Each
\* accepted commit has one commitDone, so the k-th commitDone of the queue
\* answers the k-th entry of the log, and an update with version v announces
\* entry v - 1.
C11_CommitDoneBeforeLaterUpdates ==
  /\ CommitDonesUpTo(Len(queue)) = Len(changes)
  /\ \A i \in 1..Len(queue) :
       Arg(queue[i].data, 0) = StrItem("commitDone") =>
         \A j \in 1..Len(queue) :
           ( /\ queue[j].to = queue[i].to
             /\ Arg(queue[j].data, 0) = StrItem("update")
             /\ NumberOf(queue[j].data).num > CommitDonesUpTo(i) + 1 ) => j > i

\* C11 witness: a session was sent the commitDone for a commit of its own
\* made on the rebase path and, after it, the update for a later commit
C11_Witness ==
  \E i \in 1..Len(queue) : \E j \in (i + 1)..Len(queue) :
    /\ Len(queue[i].data) = 1
    /\ Arg(queue[i].data, 0) = StrItem("commitDone")
    /\ queue[j].to = queue[i].to
    /\ Arg(queue[j].data, 0) = StrItem("update")

\* the sequence s is a prefix of the sequence t
IsPrefix(s, t) == Len(s) <= Len(t) /\ SubSeq(t, 1, Len(s)) = s

\* C12: the change log is append-only: in every step the log before is a
\* prefix of the log after.
C12_LogAppendOnly == [][IsPrefix(changes, changes')]_vars

\* C13: close(docId) is handled without failing, is answered with nothing
\* and leaves version, log and document as they are.
C13_CloseHandled ==
  [][HandlesClose =>
       /\ outcome' = "ok"
       /\ HubUnchanged
       /\ Sent = <<>>]_vars

\* C14: a commit whose handling fails has no visible effect: version, log
\* and document are as before and no update is sent for it.
C14_FailedCommitNoEffect ==
  [][(HandlesCommit /\ outcome' = "threw") =>
       /\ HubUnchanged
       /\ Tagged(Sent, "update") = <<>>]_vars

(***************************************************************************)
(* C15..C20: the operation algebra                                         *)
(***************************************************************************)
\* C15: invertibility: for a well-formed o and a state s on which o.apply
\* does not fail, o.invert() is built without error and applying o and then
\* o.invert() to s gives a state equal to s.
C15_Invertibility ==
  (otpc = "inverted" /\ Apply(opA, st).ok) =>
    /\ tres.status = "ok"
    /\ lhs.ok
    /\ lhs.doc = st

\* C16: clone() returns an operation structurally equal to the original:
\* same type and path, equal val, original and diff.
C16_CloneEqual ==
  otpc = "cloned" => (tres.status = "ok" /\ tres.a = opA)

\* a transform was called; opts holds its options, tres its result
TransformDone == otpc \in {"transformed", "optioned"}

\* C17: transform is the identity when a is NOP, b is NOP or the paths
\* differ: it returns a pair structurally equal to (a, b).
C17_IdentityWithoutConflict ==
  (TransformDone /\ (opA.type = NOP \/ opB.type = NOP \/ opA.path # opB.path)) =>
    /\ tres.status = "ok"
    /\ tres.a = opA
    /\ tres.b = opB

\* the pairs of types for which __transform__ holds a rule that throws
IllegalPair(x, y) ==
  \/ x = CREATE /\ y \in {CREATE, DELETE, UPDATE, SET}
  \/ y = CREATE /\ x \in {CREATE, DELETE, UPDATE, SET}
  \/ x = UPDATE /\ y = SET
  \/ x = SET /\ y = UPDATE

\* C18 as claimed: on one path, transform fails for every pair of a Create
\* with a Create, Delete, Update or Set and every pair of an Update with a
\* Set, in either order.
C18_AsClaimed ==
  (TransformDone /\ opA.path = opB.path /\ IllegalPair(opA.type, opB.type)) =>
    tres.status # "ok"

\* C18 amended: ... for every such pair in which neither operation is a
\* no-op (isNOP(): an Update whose diff is a no-op counts as one).
C18_IllegalPairsFail ==
  ( /\ TransformDone
    /\ opA.path = opB.path
    /\ IllegalPair(opA.type, opB.type)
    /\ ~IsNOP(opA)
    /\ ~IsNOP(opB) ) =>
    tres.status # "ok"

\* C18 witness: an Update and a Set of one path were transformed in place,
\* without the no-conflict option, and the transform failed
C18_Witness ==
  /\ otpc = "optioned"
  /\ opts = [inplace |-> TRUE, noConflict |-> FALSE]
  /\ opA.type = SET
  /\ opB.type = UPDATE
  /\ ~IsNOP(opB)
  /\ opA.path = opB.path
  /\ tres.status = "error"

\* the operands as the call left them: with inplace the returned pair is
\* the operands, otherwise transform worked on clones
OperandA == IF opts.inplace THEN tres.a ELSE opA

OperandB == IF opts.inplace THEN tres.b ELSE opB

\* C19: with the no-conflict option transform raises a Conflict exactly when
\* both operations are non-NOP and have equal paths; the Conflict carries
\* both operands and neither operand is modified, inplace or not.
C19_ConflictExactly ==
  (TransformDone /\ opts.noConflict) =>
    /\ tres.status = "conflict"
         <=> (opA.type # NOP /\ opB.type # NOP /\ opA.path = opB.path)
    /\ tres.status = "conflict" =>
         /\ tres.a = opA
         /\ tres.b = opB
         /\ OperandA = opA
         /\ OperandB = opB

\* C19 witness: a Conflict was raised with inplace set, for a pair that the
\* rules would have rewritten
C19_Witness ==
  /\ otpc = "optioned"
  /\ opts = [inplace |-> TRUE, noConflict |-> TRUE]
  /\ tres.status = "conflict"
  /\ opA.type = DELETE
  /\ opB.type = SET

\* C20: rule D-U: a Delete and an Update of one path transformed against
\* each other, in either order: the Update side becomes a NOP and the Delete
\* side stays a Delete whose val is the Update's diff applied to its val.
C20_DeleteUpdate ==
  (TransformDone /\ tres.status = "ok" /\ opA.path = opB.path) =>
    /\ (opA.type = DELETE /\ opB.type = UPDATE) =>
         /\ IsNOP(tres.b)
         /\ tres.a.type = DELETE
         /\ tres.a.val = TextApply(opB.diff, opA.val).val
    /\ (opA.type = UPDATE /\ opB.type = DELETE) =>
         /\ IsNOP(tres.a)
         /\ tres.b.type = DELETE
         /\ tres.b.val = TextApply(opA.diff, opB.val).val

\* C21: rule S-S: for two Sets a, b of one path transform(a, b) returns
\* (a', b') with a' a NOP and b' a Set with b's val and with original equal
\* to a's val, so that a and then b' leave the path at b's val.
C21_SetSet ==
  ( /\ TransformDone
    /\ ~opts.noConflict
    /\ opA.type = SET
    /\ opB.type = SET
    /\ opA.path = opB.path ) =>
    /\ tres.status = "ok"
    /\ tres.a.type = NOP
    /\ tres.b.type = SET
    /\ tres.b.val = opB.val
    /\ tres.b.original = opA.val
    /\ DocGet(ApplyTwo(opA, tres.b, st).doc, opB.path) = opB.val

\* C22: closure of transform: every operation transform returns for
\* well-formed inputs satisfies the constructor's invariants for its type,
\* so that it can be constructed again and its clone() does not fail.
C22_TransformClosed ==
  (TransformDone /\ tres.status = "ok") =>
    /\ ObjectOperation(tres.a).ok
    /\ ObjectOperation(tres.b).ok
    /\ Clone(tres.a).ok
    /\ Clone(tres.b).ok

\* C23: only a message with the tag 'commit' changes the hub's version,
\* change log or document: a message with any other tag, the name of an
\* internal method included, leaves them as they are.
C23_OnlyCommitChangesHub ==
  [][(Handles /\ ~HandlesCommit) => HubUnchanged]_vars

====
